---- MODULE Spec2Model ----
(***************************************************************************)
(* A model of lambda/index.js: the single Lambda entry point of the       *)
(* storefront backend.  One invocation of exports.handler is one action:  *)
(* the proxy event is normalised (extractEventDetails), the action name   *)
(* is dispatched, the handler runs its DynamoDB call(s) against the one    *)
(* table EcommerceData, and the result is wrapped by respond.             *)
(*                                                                         *)
(* JavaScript values are encoded as follows.  Objects are TLA+ functions  *)
(* from attribute names to values; a missing attribute reads as           *)
(* Undefined.  The table is the set of its items, at most one per         *)
(* (context, id) key.  Time is Date.now() in whole seconds.               *)
(***************************************************************************)
EXTENDS Integers, Sequences, FiniteSets, TLC

VARIABLES
    store,      \* the items of table EcommerceData
    secret,     \* process.env.SECRET: a string, or Undefined when not set
    now,        \* Math.floor(Date.now() / 1000)
    nextId,     \* how many ids nanoid() has handed out
    held,       \* the bearer token the client kept from its last LOGIN
    req,        \* the last invocation: the action and data it carried
    user,       \* the last invocation: event.user, the resolved identity
    ops,        \* the last invocation: the DynamoDB calls it issued
    res,        \* the last invocation: the envelope returned, or the error
    calls,      \* per call of ops that is in flight or settled: the action that
                \* issued it and whether it is pending, applied or failed
    last        \* per key of the table: the call of ops the table applied last

vars == <<store, secret, now, nextId, held, req, user, ops, res, calls, last>>

-----------------------------------------------------------------------------
(* Bounds of the model *)

\* nanoid() is called at most MaxGen times in a behaviour
MaxGen == 1

-----------------------------------------------------------------------------
(* JavaScript values *)

\* the JavaScript value undefined, where a string is expected
Undefined == "<undefined>"

\* the object {}
EmptyObj == [k \in {} |-> Undefined]

\* body.data when the request body carries no data field
NoData == [undef |-> TRUE]

\* o.k : a missing property reads as undefined
Attr(o, k) == IF k \in DOMAIN o THEN o[k] ELSE Undefined

\* { ...a, ...b } : the properties of b win; spreading undefined adds nothing
Spread(a, b) ==
    IF b = NoData THEN a
    ELSE [k \in (DOMAIN a) \cup (DOMAIN b) |-> IF k \in DOMAIN b THEN b[k] ELSE a[k]]

\* the ids nanoid() returns, in the order it returns them
GenIds == <<"gA", "gB", "gC", "gD">>

\* nanoid(): a fresh id on every call
nanoid == GenIds[nextId + 1]

TABLE_NAME == "EcommerceData"

-----------------------------------------------------------------------------
(* Token Service: jsonwebtoken sign / verify *)

\* exp: Math.floor(Date.now() / 1000) + 86400
TokenLifetime == 86400

\* the fallback of createToken: process.env.SECRET || "SECRET"
FallbackSecret == "SECRET"

\* the instants at which the clock is observed
ClockTicks == {0, 86399, 86400}

\* jwt.sign({exp, data}, key) at clock t: the library adds iat, the instant of
\* issue; the token records the key that signed it
JwtSign(payload, key, t) ==
    [kind |-> "jwt", key |-> key, iat |-> t, exp |-> payload.exp, data |-> payload.data]

\* jwt.verify(token, key) at clock t: the decoded payload, or a thrown error
JwtVerify(token, key, t) ==
    IF token.kind # "jwt" THEN [ok |-> FALSE, error |-> "JsonWebTokenError"]
    ELSE IF key = Undefined THEN [ok |-> FALSE, error |-> "JsonWebTokenError"]
    ELSE IF token.key # key THEN [ok |-> FALSE, error |-> "JsonWebTokenError"]
    ELSE IF t >= token.exp THEN [ok |-> FALSE, error |-> "TokenExpiredError"]
    ELSE [ok |-> TRUE, data |-> token.data]

\* createToken(info)
createToken(info) ==
    [token |-> JwtSign([exp |-> now + TokenLifetime, data |-> info],
                       IF secret # Undefined THEN secret ELSE FallbackSecret, now)]

\* checkToken(token) evaluated at clock t
checkTokenAt(token, t) ==
    LET v == JwtVerify(token, secret, t)
    IN  IF v.ok THEN [kind |-> "payload", data |-> v.data]
        ELSE [kind |-> "empty"]

\* checkToken(token)
checkToken(token) == checkTokenAt(token, now)

-----------------------------------------------------------------------------
(* What an async function settles to *)

\* the promise resolved with undefined (the function fell off its end)
RUndefined == [kind |-> "undefined"]

\* the promise resolved with {}
REmpty == [kind |-> "empty"]

\* the promise resolved with { success: true }
RSuccess == [kind |-> "success"]

\* the promise resolved with { token }
RToken(t) == [kind |-> "token", token |-> t]

\* the promise resolved with response.Items
RItems(items) == [kind |-> "items", items |-> items]

\* the promise rejected with error e
Rejected(e) == [kind |-> "rejected", error |-> e]

\* what a handler did: the table after it, what it settled to, the DynamoDB
\* calls it issued and the number of ids it drew from nanoid()
Done(st, ret, issued, gen) == [st |-> st, ret |-> ret, ops |-> issued, gen |-> gen]

-----------------------------------------------------------------------------
(* Store Adapter: AWS.DynamoDB.DocumentClient on table EcommerceData,      *)
(* partition key context, sort key id                                     *)

KeyOf(item) == <<item.context, item.id>>

ItemAt(st, context, id) == {i \in st : KeyOf(i) = <<context, id>>}

Exists(st, context, id) == ItemAt(st, context, id) # {}

\* ddb.get({TableName, Key: {context, id}}): a key attribute that is undefined
\* fails the schema validation; otherwise the item, if there is one
ddbGet(st, context, id) ==
    IF id = Undefined THEN [ok |-> FALSE, error |-> "ValidationException"]
    ELSE [ok |-> TRUE, Item |-> ItemAt(st, context, id)]

\* ddb.put({TableName, Item}): the item replaces whatever has its key
ddbPut(st, item) == {i \in st : KeyOf(i) # KeyOf(item)} \cup {item}

\* a slip of ddbUpdate: the item is replaced by the key and the attribute, as a put
\* of the update's values would do
ddbUpdateReplacing(st, context, id, value) ==
    IF id = Undefined THEN [ok |-> FALSE, error |-> "ValidationException", st |-> st]
    ELSE [ok |-> TRUE,
          st |-> {i \in st : KeyOf(i) # <<context, id>>}
                 \cup {[context |-> context, id |-> id, orderStatus |-> value]}]

\* ddb.update({TableName, Key, UpdateExpression: "set orderStatus = :c"}) with no
\* ConditionExpression: UpdateItem edits the item, or adds a new item made of the
\* key and the attribute when the key has no item
ddbUpdate(st, context, id, value) ==
    IF id = Undefined THEN [ok |-> FALSE, error |-> "ValidationException", st |-> st]
    ELSE [ok |-> TRUE,
          st |-> IF Exists(st, context, id)
                 THEN {IF KeyOf(i) = <<context, id>>
                       THEN Spread(i, [orderStatus |-> value]) ELSE i : i \in st}
                 ELSE st \cup {[context |-> context, id |-> id, orderStatus |-> value]}]

\* ddb.query({TableName, KeyConditionExpression: "context = :i"})
ddbQuery(st, context) == {i \in st : i.context = context}

\* ddb.delete(params): the SDK validates params before it sends anything; Key is
\* required and params that carry no Key are rejected, the table untouched
ddbDelete(st, params) ==
    IF "Key" \notin DOMAIN params
    THEN [ok |-> FALSE, error |-> "MissingRequiredParameter", st |-> st]
    ELSE [ok |-> TRUE, st |-> {i \in st : KeyOf(i) # <<params.Key.context, params.Key.id>>}]

-----------------------------------------------------------------------------
(* Action Handlers.  Each takes body.data and the table, and yields Done(...) *)

\* login(data): data.userId on an undefined data throws inside the async function
login(data, st) ==
    IF data = NoData THEN Done(st, Rejected("TypeError"), <<>>, 0)
    ELSE LET response == ddbGet(st, "user", Attr(data, "userId"))
             call == <<[op |-> "get", context |-> "user", id |-> Attr(data, "userId")]>>
         IN  IF ~response.ok THEN Done(st, Rejected(response.error), call, 0)
             ELSE IF \E item \in response.Item :
                         Attr(item, "password") = Attr(data, "password")
             THEN LET item == CHOOSE item \in response.Item : TRUE
                  IN  Done(st, RToken(createToken(Attr(item, "info")).token), call, 0)
             ELSE Done(st, RUndefined, call, 0)

\* a slip of orderOf: orderStatus written before the spread, so the payload wins
orderOfPayloadLast(data) ==
    Spread([context |-> "order", id |-> nanoid, orderStatus |-> "OPEN"], data)

\* the object literal of createOrder: { context, id: nanoid(), ...data, orderStatus }
orderOf(data) ==
    Spread(Spread([context |-> "order", id |-> nanoid], data), [orderStatus |-> "OPEN"])

\* createOrder(data)
createOrder(data, st) ==
    Done(ddbPut(st, orderOf(data)), RSuccess, <<[op |-> "put", Item |-> orderOf(data)]>>, 1)

\* completeOrder(data)
completeOrder(data, st) ==
    IF data = NoData THEN Done(st, Rejected("TypeError"), <<>>, 0)
    ELSE LET u == ddbUpdate(st, "order", Attr(data, "id"), "CLOSED")
             call == <<[op |-> "update", context |-> "order", id |-> Attr(data, "id"),
                        orderStatus |-> "CLOSED"]>>
         IN  IF u.ok THEN Done(u.st, RSuccess, call, 0)
             ELSE Done(st, Rejected(u.error), call, 0)

\* reopenOrder as a copy of completeOrder whose status was not changed
reopenOrderClosing(data, st) ==
    IF data = NoData THEN Done(st, Rejected("TypeError"), <<>>, 0)
    ELSE LET u == ddbUpdate(st, "order", Attr(data, "id"), "CLOSED")
             call == <<[op |-> "update", context |-> "order", id |-> Attr(data, "id"),
                        orderStatus |-> "CLOSED"]>>
         IN  IF u.ok THEN Done(u.st, RSuccess, call, 0)
             ELSE Done(st, Rejected(u.error), call, 0)

\* reopenOrder(data)
reopenOrder(data, st) ==
    IF data = NoData THEN Done(st, Rejected("TypeError"), <<>>, 0)
    ELSE LET u == ddbUpdate(st, "order", Attr(data, "id"), "OPEN")
             call == <<[op |-> "update", context |-> "order", id |-> Attr(data, "id"),
                        orderStatus |-> "OPEN"]>>
         IN  IF u.ok THEN Done(u.st, RSuccess, call, 0)
             ELSE Done(st, Rejected(u.error), call, 0)

\* getItemList(data)
getItemList(data, st) == Done(st, RItems(ddbQuery(st, "item")),
                              <<[op |-> "query", context |-> "item"]>>, 0)

\* getOrderList()
getOrderList(data, st) == Done(st, RItems(ddbQuery(st, "order")),
                               <<[op |-> "query", context |-> "order"]>>, 0)

\* the object literal of addItem: { context: "item", id: nanoid(), ...data }
itemOf(data) == Spread([context |-> "item", id |-> nanoid], data)

\* addItem(data): no return statement
addItem(data, st) ==
    Done(ddbPut(st, itemOf(data)), RUndefined, <<[op |-> "put", Item |-> itemOf(data)]>>, 1)

\* removeItem(data): context and id are passed beside TableName, not inside a Key
removeItem(data, st) ==
    IF data = NoData THEN Done(st, Rejected("TypeError"), <<>>, 0)
    ELSE LET params == [TableName |-> TABLE_NAME, context |-> "item",
                        id |-> Attr(data, "id")]
             d == ddbDelete(st, params)
             call == <<[op |-> "delete", params |-> params]>>
         IN  IF d.ok THEN Done(d.st, RUndefined, call, 0)
             ELSE Done(st, Rejected(d.error), call, 0)

\* the seed records of init()
SeedItems ==
    << [context |-> "item", id |-> "1", image |-> "images/product01.jpg", price |-> 10,
       title |-> "Tank Top", description |-> ""],
      [context |-> "item", id |-> "2", image |-> "images/product02.jpg", price |-> 10,
       title |-> "Polo-Shirt", description |-> ""],
      [context |-> "item", id |-> "3", image |-> "images/product03.jpg", price |-> 10,
       title |-> "T-Shirt", description |-> ""],
      [context |-> "user", id |-> "admin",
       password |-> "cac28395540089e505a68311833c2cb5a92f84f4"],
      [context |-> "order", id |-> "1", orderStatus |-> "OPEN", price |-> 10,
       title |-> "Tank Top", buyerName |-> "Mark Zucherberg",
       buyerAddress |-> "1 Hacker Way, Menlo Park, 94025 CA, United States of America."],
      [context |-> "order", id |-> "2", orderStatus |-> "OPEN", price |-> 10,
       title |-> "Polo-Shirt", buyerName |-> "Sundar Pitchai",
       buyerAddress |-> "1600 Amphitheatre Parkway, Mountain View, CA 94043"],
      [context |-> "order", id |-> "3", orderStatus |-> "OPEN", price |-> 10,
       title |-> "T-Shirt", buyerName |-> "Andy Jassy",
       buyerAddress |-> "410 Terry Ave N, Seattle, Washington 98109, US"] >>

\* the table after each put of a sequence of puts
RECURSIVE PutAll(_, _)
PutAll(st, items) ==
    IF items = <<>> THEN st
    ELSE PutAll(ddbPut(st, Head(items)), Tail(items))

\* init(): one put per seed, awaited together; no return statement
init(st) ==
    Done(PutAll(st, SeedItems), RUndefined,
         [n \in 1..Len(SeedItems) |-> [op |-> "put", Item |-> SeedItems[n]]], 0)

-----------------------------------------------------------------------------
(* Request Normalizer *)

\* JSON.parse(event.body) of a body that is present: the text "null" parses to
\* null, an object to itself, anything unparseable throws
JsonParse(body) ==
    CASE body.kind = "malformed" -> [ok |-> FALSE, error |-> "SyntaxError"]
      [] body.kind = "null"      -> [ok |-> TRUE, value |-> [kind |-> "null"]]
      [] OTHER                   -> [ok |-> TRUE, value |-> body]

\* event.headers?.Authorization
AuthorizationOf(event) ==
    IF event.headers.kind = "null" THEN [kind |-> "missing"]
    ELSE event.headers.Authorization

\* extractEventDetails(event): the fields are evaluated in order, so a body that
\* does not parse throws first, and event.headers["x-api-key"] throws on an event
\* without headers after the token has been checked
extractEventDetails(event) ==
    LET parsed == IF event.body.kind = "absent"
                  THEN [ok |-> TRUE, value |-> [kind |-> "object", fields |-> EmptyObj]]
                  ELSE JsonParse(event.body)
    IN  IF ~parsed.ok THEN [ok |-> FALSE, error |-> parsed.error]
        ELSE IF event.headers.kind = "null" THEN [ok |-> FALSE, error |-> "TypeError"]
        ELSE [ok |-> TRUE, body |-> parsed.value,
              user |-> checkToken(AuthorizationOf(event))]

-----------------------------------------------------------------------------
(* Dispatcher *)

Actions ==
    {"INIT", "LOGIN", "ADD_ORDER", "ORDER_LIST", "COMPLETE_ORDER", "REOPEN_ORDER",
     "ITEM_LIST", "ADD_ITEM", "REMOVE_ITEM"}

\* JSON.stringify(value): undefined has no JSON text, and stringify returns undefined
JsonStringify(ret) ==
    IF ret.kind = "undefined" THEN [kind |-> "undefined"]
    ELSE [kind |-> "json", value |-> ret]

\* respond(response): awaits the handler's promise; a rejection rejects respond
respond(ret) ==
    IF ret.kind = "rejected" THEN [kind |-> "error", error |-> ret.error]
    ELSE [kind |-> "envelope", statusCode |-> 200, headers |-> "Access-Control-Allow-*: *",
          body |-> JsonStringify(ret)]

\* const { action, data } = event.body, then the switch of exports.handler
dispatch(body, st) ==
    LET action == Attr(body.fields, "action")
        data   == IF "data" \in DOMAIN body.fields THEN body.fields.data ELSE NoData
    IN  CASE action = "INIT"           -> init(st)
          [] action = "LOGIN"          -> login(data, st)
          [] action = "ADD_ORDER"      -> createOrder(data, st)
          [] action = "ORDER_LIST"     -> getOrderList(data, st)
          [] action = "COMPLETE_ORDER" -> completeOrder(data, st)
          [] action = "REOPEN_ORDER"   -> reopenOrder(data, st)
          [] action = "ITEM_LIST"      -> getItemList(data, st)
          [] action = "ADD_ITEM"       -> addItem(data, st)
          [] action = "REMOVE_ITEM"    -> removeItem(data, st)
          [] OTHER                     -> Done(st, REmpty, <<>>, 0)

\* exports.handler with a check of the caller in front of the actions that write:
\* a caller without identity gets {} and the handler is not run
handlerRefusingAnonymous(event, st) ==
    LET ev == extractEventDetails(event)
    IN  IF ~ev.ok THEN [st |-> st, gen |-> 0, ops |-> <<>>, user |-> [kind |-> "none"],
                        res |-> [kind |-> "error", error |-> ev.error]]
        ELSE IF ev.body.kind = "null"
        THEN [st |-> st, gen |-> 0, ops |-> <<>>, user |-> ev.user,
              res |-> [kind |-> "error", error |-> "TypeError"]]
        ELSE IF /\ ev.user.kind = "empty"
                /\ Attr(ev.body.fields, "action") \in
                       {"ADD_ITEM", "REMOVE_ITEM", "COMPLETE_ORDER", "REOPEN_ORDER"}
        THEN [st |-> st, gen |-> 0, ops |-> <<>>, user |-> ev.user,
              res |-> respond(REmpty)]
        ELSE LET d == dispatch(ev.body, st)
             IN  [st |-> d.st, gen |-> d.gen, ops |-> d.ops, user |-> ev.user,
                  res |-> respond(d.ret)]

\* exports.handler(event): what the invocation does to the table and what it
\* returns; a throw before the switch fails the invocation
handler(event, st) ==
    LET ev == extractEventDetails(event)
    IN  IF ~ev.ok THEN [st |-> st, gen |-> 0, ops |-> <<>>, user |-> [kind |-> "none"],
                        res |-> [kind |-> "error", error |-> ev.error]]
        ELSE IF ev.body.kind = "null"
        THEN [st |-> st, gen |-> 0, ops |-> <<>>, user |-> ev.user,
              res |-> [kind |-> "error", error |-> "TypeError"]]
        ELSE LET d == dispatch(ev.body, st)
             IN  [st |-> d.st, gen |-> d.gen, ops |-> d.ops, user |-> ev.user,
                  res |-> respond(d.ret)]

-----------------------------------------------------------------------------
(* The requests clients send *)

SeedPassword == "cac28395540089e505a68311833c2cb5a92f84f4"

\* data of LOGIN requests
LoginData ==
    { NoData,
      [userId |-> "admin", password |-> SeedPassword],
      [userId |-> "admin", password |-> "wrong"],
      [userId |-> "admin", password |-> "owned"],
      [userId |-> "nobody", password |-> SeedPassword],
      [password |-> SeedPassword] }

\* data of ADD_ORDER and ADD_ITEM requests: no data, a payload that carries its
\* own orderStatus, and payloads that carry their own context and id
RecordData ==
    { NoData,
      [title |-> "Cap", orderStatus |-> "SHIPPED"],
      [context |-> "order", id |-> "1", title |-> "Cap"],
      [context |-> "user", id |-> "admin", password |-> "owned", info |-> "root"] }

\* data of COMPLETE_ORDER, REOPEN_ORDER and REMOVE_ITEM requests: no data, no
\* id, a seed id and every id generated so far
IdData ==
    { NoData, EmptyObj, [id |-> "1"] } \cup { [id |-> GenIds[n]] : n \in 1..nextId }

\* data of the requests whose handler ignores it
AnyData == { NoData }

\* action names no case of the switch matches (undefined: the body has no action)
UnknownNames == { Undefined, "login", "DELETE_ORDER" }

\* a token signed by someone who does not know the secret
ForgedToken == JwtSign([exp |-> 172800, data |-> "root"], "guess", 0)

\* the headers of an ordinary request: the client sends the token it holds, if any
ClientHeaders == [kind |-> "present", Authorization |-> held]

\* other headers: none at all, no Authorization, text that is no token, a forged token
OddHeaders ==
    { [kind |-> "null"] } \cup
    { [kind |-> "present", Authorization |-> a] :
        a \in {[kind |-> "missing"], [kind |-> "garbage"], ForgedToken} }

\* the body {action, data} as JSON text
Body(action, data) ==
    [kind |-> "object",
     fields |-> IF data = NoData THEN [action |-> action]
                ELSE [action |-> action, data |-> data]]

-----------------------------------------------------------------------------
(* Init and the actions *)

\* no invocation is running
NoRequest ==
    [action |-> Undefined, data |-> NoData, body |-> "none", headers |-> "none",
     auth |-> [kind |-> "missing"]]

Idle == res.kind = "none"

\* no call has been applied to any key
NoCalls == [k \in {} |-> 0]

Init ==
    /\ store = {}
    /\ secret \in {Undefined, "s3cr3t"}
    /\ now = 0
    /\ nextId = 0
    /\ held = [kind |-> "missing"]
    /\ req = NoRequest
    /\ user = [kind |-> "none"]
    /\ ops = <<>>
    /\ res = [kind |-> "none"]
    /\ calls = <<>>
    /\ last = NoCalls

\* one invocation of exports.handler on an event
Invoke(event, action, data) ==
    LET h == handler(event, store)
    IN  /\ Idle
        /\ nextId + h.gen <= MaxGen
        /\ store' = h.st
        /\ nextId' = nextId + h.gen
        /\ req' = [action |-> action, data |-> data, body |-> event.body.kind,
                   headers |-> event.headers.kind, auth |-> AuthorizationOf(event)]
        /\ user' = h.user
        /\ ops' = h.ops
        /\ res' = h.res
        /\ UNCHANGED <<secret, now, held, calls, last>>

\* a request of a client for one of the recognised actions
Request(action, dataSet) ==
    \E data \in dataSet :
        Invoke([headers |-> ClientHeaders, body |-> Body(action, data)], action, data)

Seed == Request("INIT", AnyData)

Login == Request("LOGIN", LoginData)

AddOrder == Request("ADD_ORDER", RecordData)

OrderList == Request("ORDER_LIST", AnyData)

CompleteOrder == Request("COMPLETE_ORDER", IdData)

ReopenOrder == Request("REOPEN_ORDER", IdData)

ItemList == Request("ITEM_LIST", AnyData)

AddItem == Request("ADD_ITEM", RecordData)

RemoveItem == Request("REMOVE_ITEM", IdData)

\* a request whose action no case matches
UnknownAction ==
    \E name \in UnknownNames : Request(name, AnyData)

\* a request without a body, or whose body is not a JSON object
NoObjectBody ==
    \E kind \in {"absent", "malformed", "null"} :
        Invoke([headers |-> ClientHeaders, body |-> [kind |-> kind]], Undefined, NoData)

\* a request that does not carry the client's token
OddRequest ==
    \E hd \in OddHeaders, action \in {"ITEM_LIST", "COMPLETE_ORDER", "DELETE_ORDER"} :
        Invoke([headers |-> hd, body |-> Body(action, [id |-> "1"])], action, [id |-> "1"])

\* the invocation ends: the client receives what it returned and keeps a token
Return ==
    /\ ~Idle
    /\ held' = IF res.kind = "envelope" /\ res.body.kind = "json"
                  /\ res.body.value.kind = "token"
               THEN res.body.value.token ELSE held
    /\ req' = NoRequest
    /\ user' = [kind |-> "none"]
    /\ ops' = <<>>
    /\ res' = [kind |-> "none"]
    /\ UNCHANGED <<store, secret, now, nextId, calls, last>>

\* the clock moves on
Tick ==
    /\ Idle
    /\ \E t \in ClockTicks : t > now /\ now' = t
    /\ UNCHANGED <<store, secret, nextId, held, req, user, ops, res, calls, last>>

Next ==
    \/ Seed
    \/ Login
    \/ AddOrder
    \/ OrderList
    \/ CompleteOrder
    \/ ReopenOrder
    \/ ItemList
    \/ AddItem
    \/ RemoveItem
    \/ UnknownAction
    \/ NoObjectBody
    \/ OddRequest
    \/ Return
    \/ Tick

Spec == Init /\ [][Next]_vars

-----------------------------------------------------------------------------
(* Calls in flight.  Spec runs one invocation at a time and takes the calls  *)
(* a handler awaits together with the handler.  The specifications below     *)
(* take the calls apart from the handlers that issue them: a call is issued, *)
(* and the table applies it, or it fails, at some later step.                *)

\* how many calls the concurrent order requests issue
MaxCalls == 3

\* the calls that are issued and not settled
Pending == {i \in 1..Len(calls) : calls[i].status = "pending"}

\* the calls of an invocation of action, all pending
Issued(action, n) == [i \in 1..n |-> [action |-> action, status |-> "pending"]]

\* the key a call writes
KeyOfCall(c) == IF c.op = "put" THEN KeyOf(c.Item) ELSE <<c.context, c.id>>

\* the table after the table has applied the call c
ApplyCall(st, c) ==
    IF c.op = "put" THEN ddbPut(st, c.Item)
    ELSE ddbUpdate(st, c.context, c.id, c.orderStatus).st

\* a call the table rejects for reasons of its own (throttling, an outage)
StoreError == "ProvisionedThroughputExceededException"

\* Promise.all(pList) of init: fulfilled when the last put is fulfilled, rejected
\* at the first put that is rejected; exports.handler returns respond(init())
\* then.  The requests on orders await one call each and answer on their own.
Settled(i, outcome) ==
    IF res.kind # "pending" THEN res
    ELSE IF outcome = "failed" THEN respond(Rejected(StoreError))
    ELSE IF Pending = {i} THEN respond(RUndefined)
    ELSE res

\* INIT: items.map((i) => ddb.put(...).promise()) issues every put before any
\* of them is awaited
SeedStart ==
    /\ Idle
    /\ ops = <<>>
    /\ ops' = init(store).ops
    /\ calls' = Issued("INIT", Len(init(store).ops))
    /\ req' = [action |-> "INIT", data |-> NoData, body |-> "object",
               headers |-> "present", auth |-> held]
    /\ user' = checkToken(held)
    /\ res' = [kind |-> "pending"]
    /\ UNCHANGED <<store, secret, now, nextId, held, last>>

\* the table applies a pending call
Write ==
    \E i \in Pending :
        /\ store' = ApplyCall(store, ops[i])
        /\ calls' = [calls EXCEPT ![i].status = "applied"]
        /\ last' = [k \in DOMAIN last \cup {KeyOfCall(ops[i])} |->
                       IF k = KeyOfCall(ops[i]) THEN i ELSE last[k]]
        /\ res' = Settled(i, "applied")
        /\ UNCHANGED <<secret, now, nextId, held, req, user, ops>>

\* a pending call fails: its promise is rejected and the table is as it was
Fail ==
    \E i \in Pending :
        /\ calls' = [calls EXCEPT ![i].status = "failed"]
        /\ res' = Settled(i, "failed")
        /\ UNCHANGED <<store, secret, now, nextId, held, req, user, ops, last>>

\* the INIT invocation is over and none of its calls is in flight any more
SeedReturn ==
    /\ res.kind \in {"envelope", "error"}
    /\ Pending = {}
    /\ req' = NoRequest
    /\ user' = [kind |-> "none"]
    /\ ops' = <<>>
    /\ res' = [kind |-> "none"]
    /\ calls' = <<>>
    /\ last' = NoCalls
    /\ UNCHANGED <<store, secret, now, nextId, held>>

NextInit ==
    \/ SeedStart
    \/ Write
    \/ Fail
    \/ SeedReturn

\* INIT with its puts in flight
SpecInit == Init /\ [][NextInit]_vars

\* the table after INIT
Seeded == init({}).st

InitOrders ==
    /\ store = Seeded
    /\ secret \in {Undefined, "s3cr3t"}
    /\ now = 0
    /\ nextId = 0
    /\ held = [kind |-> "missing"]
    /\ req = NoRequest
    /\ user = [kind |-> "none"]
    /\ ops = <<>>
    /\ res = [kind |-> "none"]
    /\ calls = <<>>
    /\ last = NoCalls

\* a COMPLETE_ORDER or REOPEN_ORDER request arrives while others are in flight:
\* its handler issues its update
OrderRequest ==
    \E action \in {"COMPLETE_ORDER", "REOPEN_ORDER"}, id \in {"1", "2"} :
        LET h == handler([headers |-> ClientHeaders,
                          body |-> Body(action, [id |-> id])], store)
        IN  /\ Len(ops) + Len(h.ops) <= MaxCalls
            /\ ops' = ops \o h.ops
            /\ calls' = calls \o Issued(action, Len(h.ops))
            /\ UNCHANGED <<store, secret, now, nextId, held, req, user, res, last>>

NextOrders ==
    \/ OrderRequest
    \/ Write
    \/ Fail

\* concurrent requests on the orders of the seeded table
SpecOrders == InitOrders /\ [][NextOrders]_vars

-----------------------------------------------------------------------------
(* Properties *)

\* the envelope respond builds around a value
Envelope(ret) ==
    [kind |-> "envelope", statusCode |-> 200, headers |-> "Access-Control-Allow-*: *",
     body |-> [kind |-> "json", value |-> ret]]

\* C1: for every ADD_ORDER payload, also one that carries its own orderStatus,
\* the record the invocation puts into the table has orderStatus OPEN
C1_AddOrderWritesOpen ==
    (req.action = "ADD_ORDER" /\ ~Idle) =>
        /\ Len(ops) = 1
        /\ ops[1].op = "put"
        /\ Attr(ops[1].Item, "orderStatus") = "OPEN"
        /\ ops[1].Item \in store

\* an ADD_ORDER whose payload asked for another orderStatus has written its record
C1_Witness ==
    /\ req.action = "ADD_ORDER"
    /\ req.data # NoData
    /\ Attr(req.data, "orderStatus") = "SHIPPED"
    /\ Len(ops) = 1
    /\ ops[1].Item \in store
    /\ ops[1].Item.title = "Cap"

\* C2: every record stored under context "order" has an orderStatus that is
\* exactly OPEN or CLOSED
C2_OrderStatusOpenOrClosed ==
    \A r \in store :
        r.context = "order" => Attr(r, "orderStatus") \in {"OPEN", "CLOSED"}

\* C3: REOPEN_ORDER or COMPLETE_ORDER on an id that has no order record fails and
\* leaves the table as it was
C3_UpdateOfMissingOrderFails ==
    [][ ( /\ Idle
          /\ req'.action \in {"REOPEN_ORDER", "COMPLETE_ORDER"}
          /\ req'.data # NoData
          /\ Attr(req'.data, "id") # Undefined
          /\ ~Exists(store, "order", Attr(req'.data, "id")) )
        => (store' = store /\ res'.kind = "error") ]_vars

\* the stored users whose id and password the data of the last request matches
MatchingUsers ==
    IF req.data = NoData THEN {}
    ELSE {u \in store : /\ u.context = "user"
                        /\ u.id = Attr(req.data, "userId")
                        /\ Attr(u, "password") = Attr(req.data, "password")}

\* the body of the envelope of the last invocation is {token}
ReturnedToken ==
    /\ res.kind = "envelope"
    /\ res.body.kind = "json"
    /\ res.body.value.kind = "token"

\* C4: a LOGIN whose userId and password match a stored user returns a token,
\* and verifying that token yields the user's stored info
C4_LoginTokenVerifies ==
    (req.action = "LOGIN" /\ ~Idle) =>
        \A u \in MatchingUsers :
            /\ ReturnedToken
            /\ checkToken(res.body.value.token) = [kind |-> "payload", data |-> Attr(u, "info")]

\* C5: a LOGIN for a userId that has no user record, or with a password that
\* differs from the stored one, issues no token and returns the envelope of {}
C5_FailedLoginReturnsEmptyObject ==
    ( /\ req.action = "LOGIN"
      /\ ~Idle
      /\ req.data # NoData
      /\ Attr(req.data, "userId") # Undefined
      /\ MatchingUsers = {} )
    => res = Envelope(REmpty)

\* C6: a token issued at T verifies, and yields its payload, at every instant
\* before T + 24h, and yields the empty identity from T + 24h on
C6_TokenValidFor24h ==
    ( /\ ~Idle
      /\ user.kind # "none"
      /\ req.auth.kind = "jwt"
      /\ req.auth = held )
    => IF now < held.iat + 24 * 60 * 60
       THEN user = [kind |-> "payload", data |-> held.data]
       ELSE user = [kind |-> "empty"]

\* the Authorization of the last request is no token, a token signed with
\* another key, or a token that has expired
BadBearer ==
    \/ req.auth.kind # "jwt"
    \/ req.auth = ForgedToken
    \/ now >= req.auth.exp

\* C7: a request whose bearer token is missing, malformed, wrongly signed or
\* expired is resolved to the empty identity and goes on to dispatch
C7_BadTokenIsAnonymous ==
    ( /\ ~Idle
      /\ req.body \in {"object", "absent"}
      /\ BadBearer )
    => user = [kind |-> "empty"]

\* C8: after REMOVE_ITEM with the id ADD_ITEM generated, no record is stored
\* under (item, id) and ITEM_LIST does not return one
C8_RemovedItemIsGone ==
    ( /\ req.action = "REMOVE_ITEM"
      /\ ~Idle
      /\ req.data # NoData
      /\ Attr(req.data, "id") \in {GenIds[n] : n \in 1..nextId} )
    => /\ ~Exists(store, "item", req.data.id)
       /\ \A i \in getItemList(NoData, store).ret.items : i.id # req.data.id

\* the table with the orderStatus of the order under id set to value, and every
\* other attribute and every other record as they are
WithStatus(st, id, value) ==
    { IF KeyOf(r) = <<"order", id>>
      THEN [k \in (DOMAIN r) \cup {"orderStatus"} |->
               IF k = "orderStatus" THEN value ELSE r[k]]
      ELSE r : r \in st }

\* a COMPLETE_ORDER for an order that exists sets its orderStatus to CLOSED,
\* changes nothing else and returns {success: true}
C9_Step ==
    ( /\ Idle
      /\ req'.action = "COMPLETE_ORDER"
      /\ req'.headers = "present"
      /\ req'.data # NoData
      /\ Exists(store, "order", Attr(req'.data, "id")) )
    => /\ store' = WithStatus(store, req'.data.id, "CLOSED")
       /\ res' = Envelope(RSuccess)

\* right after a COMPLETE_ORDER that succeeded, the same COMPLETE_ORDER once more
\* leaves the table as it is, with the order CLOSED, and returns {success: true}
C9_Again ==
    ( /\ ~Idle
      /\ req.action = "COMPLETE_ORDER"
      /\ res = Envelope(RSuccess) )
    => /\ \A r \in ItemAt(store, "order", req.data.id) : r.orderStatus = "CLOSED"
       /\ completeOrder(req.data, store).st = store
       /\ completeOrder(req.data, store).ret = RSuccess

\* C9: COMPLETE_ORDER is idempotent on an existing order: applied twice it leaves
\* the table as applied once (CLOSED, the other attributes unchanged), and both
\* calls return {success: true}
C9_CompleteOrderIdempotent == [][C9_Step]_vars /\ []C9_Again

\* a COMPLETE_ORDER has closed a seed order, which keeps its other attributes
C9_Witness ==
    /\ ~Idle
    /\ req.action = "COMPLETE_ORDER"
    /\ res = Envelope(RSuccess)
    /\ \E r \in ItemAt(store, "order", req.data.id) :
          /\ r.orderStatus = "CLOSED"
          /\ Attr(r, "buyerName") = "Mark Zucherberg"
    /\ completeOrder(req.data, store).st = store

\* C10: a request whose action is none of the nine names, also one with no body or
\* no action field, issues no DynamoDB call and gets the envelope of {}
C10_UnknownActionReturnsEmptyObject ==
    ( /\ ~Idle
      /\ req.headers = "present"
      /\ req.body \in {"object", "absent", "null"}
      /\ req.action \notin Actions )
    => (ops = <<>> /\ res = Envelope(REmpty))

\* C11: when a DynamoDB call of a handler fails, the invocation still returns an
\* envelope: it never ends with an uncaught failure
C11_StoreFailureIsCaught ==
    (~Idle /\ req.action \in Actions /\ ops # <<>>) => res.kind = "envelope"

\* C12: a body that is present and is not parseable JSON gets a client-error
\* response; no handler runs and no DynamoDB call is issued
C12_MalformedBodyIsClientError ==
    (~Idle /\ req.body = "malformed") =>
        /\ res.kind = "envelope"
        /\ res.statusCode \in 400..499
        /\ ops = <<>>

\* the records stored under context "user"
Users(st) == {r \in st : r.context = "user"}

\* the requests of the last invocation other than INIT, which seeds the table
HandlerStep ==
    /\ Idle
    /\ req'.action \in Actions \ {"INIT"}

\* C13: no LOGIN, ADD_ORDER, COMPLETE_ORDER, REOPEN_ORDER, ITEM_LIST, ORDER_LIST,
\* ADD_ITEM or REMOVE_ITEM request creates, overwrites or deletes a user record
C13_UsersUnchanged ==
    [][HandlerStep => Users(store') = Users(store)]_vars

\* record r without its orderStatus
SansStatus(r) == [k \in (DOMAIN r) \ {"orderStatus"} |-> r[k]]

\* C14: once an order record exists, no request other than INIT deletes it or
\* changes an attribute of it other than orderStatus
C14_OrdersKeepTheirAttributes ==
    [][HandlerStep =>
          \A r \in store :
              r.context = "order" =>
                  \E q \in store' : SansStatus(q) = SansStatus(r)]_vars

\* C17: in every configuration of the secret, a token that LOGIN has just issued
\* verifies and yields the payload it was issued with
C17_IssuedTokenVerifies ==
    (~Idle /\ ReturnedToken) =>
        checkToken(res.body.value.token) =
            [kind |-> "payload", data |-> res.body.value.token.data]

\* the bearer tokens a request can carry: none, text that is no token, a forged
\* token, and the token the client holds
BearerTokens == {[kind |-> "missing"], [kind |-> "garbage"], ForgedToken, held}

\* the body of the event of the invocation r
EventBody(r) ==
    IF r.body = "object" THEN Body(r.action, r.data) ELSE [kind |-> r.body]

\* the invocation r run on the table st with the bearer token a
WithBearer(r, a, st) ==
    handler([headers |-> [kind |-> "present", Authorization |-> a],
             body |-> EventBody(r)], st)

\* C18: an invocation does to the table, and returns, what the same request does
\* and returns from the same table with any other bearer token (valid, invalid or
\* absent): nothing is refused or altered for an anonymous caller
C18_IdentityIndependent ==
    [][(Idle /\ ~Idle' /\ req'.headers = "present") =>
          \A a \in BearerTokens \ {req'.auth} :
              LET h == WithBearer(req', a, store)
              IN  /\ h.st = store'
                  /\ h.ops = ops'
                  /\ h.res = res']_vars

\* a caller with a verified identity has completed an order, as an anonymous
\* caller would have
C18_Witness ==
    /\ ~Idle
    /\ req.action = "COMPLETE_ORDER"
    /\ user.kind = "payload"
    /\ req.auth # [kind |-> "missing"]
    /\ ops # <<>>
    /\ res = Envelope(RSuccess)
    /\ WithBearer(req, [kind |-> "missing"], store).res = res

\* C15: when the INIT invocation is over, with success or with a failure, none of
\* its seed writes is still pending
C15_InitWaitsForEveryWrite ==
    (req.action = "INIT" /\ res.kind \in {"envelope", "error"}) => Pending = {}

\* the orders of the seeded table
SeedOrders == {r \in Seeded : r.context = "order"}

\* what COMPLETE_ORDER and REOPEN_ORDER write
StatusOf(action) == IF action = "COMPLETE_ORDER" THEN "CLOSED" ELSE "OPEN"

\* C16: under every interleaving of concurrent COMPLETE_ORDER and REOPEN_ORDER
\* requests, each order has the orderStatus of the update the table applied to it
\* last (CLOSED for COMPLETE_ORDER, OPEN for REOPEN_ORDER, whatever the status
\* was before), and its other attributes are those it had
C16_LastWriteWins ==
    \A r \in SeedOrders :
        \E q \in store :
            /\ SansStatus(q) = SansStatus(r)
            /\ q.orderStatus = IF KeyOf(r) \in DOMAIN last
                               THEN StatusOf(calls[last[KeyOf(r)]].action)
                               ELSE r.orderStatus

\* order 1 has been completed and reopened by concurrent requests, and the table
\* applied the update of the request that came first last
C16_Witness ==
    \E i, j \in 1..Len(calls) :
        /\ i < j
        /\ KeyOfCall(ops[i]) = <<"order", "1">>
        /\ KeyOfCall(ops[j]) = <<"order", "1">>
        /\ calls[i].action = "COMPLETE_ORDER"
        /\ calls[j].action = "REOPEN_ORDER"
        /\ calls[i].status = "applied"
        /\ calls[j].status = "applied"
        /\ last[<<"order", "1">>] = i
        /\ \E q \in store : KeyOf(q) = <<"order", "1">> /\ q.orderStatus = "CLOSED"

====
